---- MODULE Spec2Model ----
(***************************************************************************)
(* The CDK application of infrastructure/bin/app.ts and the four stacks it *)
(* instantiates (SharedStack, FrontendStack, CicdStack, MonitoringStack).  *)
(* One run of the application script is one behaviour: the script reads    *)
(* the context, validates the stage, constructs the stacks statement by    *)
(* statement and records the dependencies it declares.  The validation     *)
(* pass of the specification is applied to the finished topology.          *)
(***************************************************************************)
EXTENDS Integers, Sequences, FiniteSets, TLC

\* Number of distinct non-empty alertEmail context values tried.
MaxAlertEmails == 2
\* Number of distinct stage context values outside validStages tried.
MaxOtherStages == 2

Undefined == "undefined"

validStages == <<"dev", "staging", "prod">>

ValidStageSet == {validStages[i] : i \in 1..Len(validStages)}

OtherStages == {"other" \o ToString(i) : i \in 1..MaxOtherStages}

AlertEmails == {"a" \o ToString(i) \o "@b.com" : i \in 1..MaxAlertEmails}

\* Values the context may hold for each key (cdk -c key=value); "" is a
\* value given but empty, Undefined a key not given.
StageContext == {Undefined, ""} \cup ValidStageSet \cup OtherStages
AlertEmailContext == {Undefined, ""} \cup AlertEmails
FlagContext == {Undefined, "true", "false"}

Context ==
    [stage : StageContext, alertEmail : AlertEmailContext,
     enableDelivery : FlagContext, enableMonitoring : FlagContext]

\* JavaScript truthiness of a context string.
Truthy(v) == v # Undefined /\ v # ""

(***************************************************************************)
(* Stack nodes, in the order app.ts declares them.                         *)
(***************************************************************************)
Shared == "shared"
Frontend == "frontend"
Cicd == "cicd"
Monitoring == "monitoring"

Declaration == <<Shared, Frontend, Cicd, Monitoring>>

Nodes == {Declaration[i] : i \in 1..Len(Declaration)}

DeclIndex(n) == CHOOSE i \in 1..Len(Declaration) : Declaration[i] = n

\* Resource kinds of the public readonly members of the stacks.
KindOrder ==
    <<"edge-cache", "object-store", "compute-function", "http-endpoint",
      "key-value-table", "pipeline", "alert-channel", "dashboard">>

Kinds == {KindOrder[i] : i \in 1..Len(KindOrder)}

Handle(kind, id, node, stg) ==
    [kind |-> kind, id |-> id, producingNode |-> node, stage |-> stg]

\* A stack that publishes a second distribution of its own.
StackOutputsMutDupKind(n, stg) ==
    CASE n = Shared ->
           {Handle("object-store", "AssetsBucket", Shared, stg),
            Handle("edge-cache", "Distribution", Shared, stg)}
      [] n = Frontend ->
           {Handle("key-value-table", "SessionTable", Frontend, stg),
            Handle("compute-function", "NextjsFunction", Frontend, stg),
            Handle("http-endpoint", "NextjsApi", Frontend, stg),
            Handle("edge-cache", "ApiCache", Frontend, stg)}
      [] n = Cicd ->
           {Handle("object-store", "ArtifactBucket", Cicd, stg),
            Handle("pipeline", "Pipeline", Cicd, stg)}
      [] n = Monitoring ->
           {Handle("alert-channel", "AlertTopic", Monitoring, stg),
            Handle("dashboard", "Dashboard", Monitoring, stg)}

\* public readonly members each stack assigns in its constructor
StackOutputs(n, stg) ==
    CASE n = Shared ->
           {Handle("object-store", "AssetsBucket", Shared, stg),
            Handle("edge-cache", "Distribution", Shared, stg)}
      [] n = Frontend ->
           {Handle("key-value-table", "SessionTable", Frontend, stg),
            Handle("compute-function", "NextjsFunction", Frontend, stg),
            Handle("http-endpoint", "NextjsApi", Frontend, stg)}
      [] n = Cicd ->
           {Handle("object-store", "ArtifactBucket", Cicd, stg),
            Handle("pipeline", "Pipeline", Cicd, stg)}
      [] n = Monitoring ->
           {Handle("alert-channel", "AlertTopic", Monitoring, stg),
            Handle("dashboard", "Dashboard", Monitoring, stg)}

\* Kinds of the handles each stack's props interface requires.
RequiredInputs(n) ==
    CASE n = Shared -> {}
      [] n = Frontend -> {"object-store"}
      [] n = Cicd -> {}
      [] n = Monitoring ->
           {"compute-function", "http-endpoint", "key-value-table", "edge-cache"}

\* Monitoring wired to a member CicdStack does not have.
WiringMutUnbuilt(n, kind) ==
    CASE n = Frontend -> Shared
      [] n = Monitoring /\ kind = "edge-cache" -> Shared
      [] n = Monitoring /\ kind = "compute-function" -> Cicd
      [] n = Monitoring -> Frontend
      [] OTHER -> n

\* The stack whose member app.ts passes for each required input.
Wiring(n, kind) ==
    CASE n = Frontend -> Shared
      [] n = Monitoring /\ kind = "edge-cache" -> Shared
      [] n = Monitoring -> Frontend
      [] OTHER -> n

(***************************************************************************)
(* State of one run of the application script.                             *)
(***************************************************************************)
\* Jobs of the deploy workflow
Jobs == {"deploy-staging", "deploy-production", "notify-deployment"}

VARIABLES
    ctx,             \* the context the run was started with (app.node)
    pc,              \* statement of app.ts about to execute
    stage,           \* const stage
    order,           \* stacks constructed so far, in construction order
    registry,        \* handles published by the constructed stacks
    inputs,          \* <<stack, handle>>: handles passed to a stack's props
    deps,            \* <<dependent, dependency>>: addDependency calls
    grants,          \* <<grantee id, resource handle, access>>
    pipelineStages,  \* stage names of CicdStack.pipeline
    subscriptions,   \* email subscriptions of MonitoringStack.alertTopic
    alarms,          \* cloudwatch.Alarm constructs of MonitoringStack
    dashboard,       \* widget rows of MonitoringStack.dashboard
    budget,          \* the CostBudget constructs (none or one)
    issues,          \* result of the validation pass
    exitStatus,      \* outcome handed to the provisioning step
    logQueries,      \* logs.QueryDefinition constructs in the application
    first,           \* results of the first call, kept for the second
    run,             \* number of the call in progress
    parked,          \* a second construction in the same process, not running
    execution,       \* the current execution of CicdStack.pipeline
    event,           \* the GitHub event that started the deploy workflow run
    jobs,            \* status of each job of the deploy workflow run
    optimized        \* a NextjsOptimized construct: its props and its function

vars ==
    <<ctx, pc, stage, order, registry, inputs, deps, grants, pipelineStages,
      subscriptions, alarms, dashboard, budget, issues, exitStatus, logQueries,
      first, run, parked, execution, event, jobs, optimized>>

\* What no statement of app.ts and no stack constructor writes.
untouched == <<exitStatus, logQueries, first, run, parked, execution, event, jobs, optimized>>

\* The monitoring block written ahead of the CI/CD block.
ScriptMutMonitoringFirst ==
    <<"readStage", "validateStage", "shared", "frontend", "frontendDep",
      "monitoring", "cicd", "tags">>

\* The stage check written after the first stack.
ScriptMutValidateLate ==
    <<"readStage", "shared", "validateStage", "frontend", "frontendDep",
      "cicd", "monitoring", "tags">>

\* Statements of app.ts in program order.
Script ==
    <<"readStage", "validateStage", "shared", "frontend", "frontendDep",
      "cicd", "monitoring", "tags">>

ScriptIndex(label) == CHOOSE i \in 1..Len(Script) : Script[i] = label

NextPc(label) ==
    IF ScriptIndex(label) < Len(Script) THEN Script[ScriptIndex(label) + 1]
    ELSE "done"

Included(n) == \E i \in 1..Len(order) : order[i] = n

Init ==
    /\ ctx \in Context
    /\ pc = Script[1]
    /\ stage = Undefined
    /\ order = <<>>
    /\ registry = {}
    /\ inputs = {}
    /\ deps = {}
    /\ grants = {}
    /\ pipelineStages = <<>>
    /\ subscriptions = {}
    /\ alarms = <<>>
    /\ dashboard = <<>>
    /\ budget = {}
    /\ issues = <<>>
    /\ exitStatus = Undefined
    /\ logQueries = <<>>
    /\ first = <<>>
    /\ run = 1
    /\ parked = <<>>
    /\ execution = [status |-> "idle", ran |-> <<>>, approved |-> FALSE]
    /\ event = <<>>
    /\ jobs = [j \in Jobs |-> "pending"]
    /\ optimized = <<>>

\* const stage = app.node.tryGetContext('stage') || 'dev'
ReadStage ==
    /\ pc = "readStage"
    /\ stage' = IF Truthy(ctx.stage) THEN ctx.stage ELSE "dev"
    /\ pc' = NextPc(pc)
    /\ UNCHANGED <<ctx, order, registry, inputs, deps, grants, pipelineStages,
                   subscriptions, alarms, dashboard, budget, issues,
                   untouched>>

\* if (!validStages.includes(stage)) throw new Error(...)
ValidateStage ==
    /\ pc = "validateStage"
    /\ pc' = IF stage \in ValidStageSet THEN NextPc(pc) ELSE "thrown"
    /\ UNCHANGED <<ctx, stage, order, registry, inputs, deps, grants,
                   pipelineStages, subscriptions, alarms, dashboard, budget,
                   issues,
                   untouched>>

\* The members of already constructed stacks that app.ts passes to stack n.
Props(n) ==
    {h \in registry :
        \E k \in RequiredInputs(n) : h.kind = k /\ h.producingNode = Wiring(n, k)}

\* Every member the constructor of n dereferences is defined.
PropsDefined(n) ==
    \A k \in RequiredInputs(n) : \E h \in Props(n) : h.kind = k

\* A module-level counter that survives from one construction to the next
\* ends up in the construct ids.
PublishMutCounted(reg, n, stg) ==
    reg \cup {[h EXCEPT !.id = IF run > 1 THEN "Renamed" ELSE h.id] :
                 h \in StackOutputs(n, stg)}

\* The monitoring constructor re-homes the members it was handed.
PublishMutMonitoringOwns(reg, n, stg) ==
    {IF n = Monitoring /\ h \in Props(n) THEN [h EXCEPT !.producingNode = n] ELSE h :
        h \in reg}
    \cup StackOutputs(n, stg)

\* Every constructor re-homes the members it was handed.
PublishMutConsumerOwns(reg, n, stg) ==
    {IF h \in Props(n) THEN [h EXCEPT !.producingNode = n] ELSE h : h \in reg}
    \cup StackOutputs(n, stg)

\* The members are kept in one module-level table shared by every
\* construction of the process.
PublishMutSharedTable(reg, n, stg) ==
    reg \cup StackOutputs(n, stg)
        \cup (IF parked = <<>> THEN {} ELSE parked[1].registry)

\* The CI/CD stack is handed a literal stage instead of the script's stage.
PublishMutFixedStage(reg, n, stg) ==
    reg \cup StackOutputs(n, IF n = Cicd THEN "prod" ELSE stg)

\* "public readonly x = new ...": a constructor adds its stack's members
\* and touches no member of another stack.
Publish(reg, n, stg) == reg \cup StackOutputs(n, stg)

\* new SharedStack(app, `${stackPrefix}-shared`, {env, stage, ...})
SharedStack ==
    /\ pc = "shared"
    /\ order' = Append(order, Shared)
    /\ registry' = Publish(registry, Shared, stage)
    /\ pc' = NextPc(pc)
    /\ UNCHANGED <<ctx, stage, inputs, deps, grants, pipelineStages,
                   subscriptions, alarms, dashboard, budget, issues,
                   untouched>>

\* grantReadWriteData / grantRead calls of the FrontendStack constructor
FrontendGrants ==
    {<<"NextjsFunction", h, "read">> :
        h \in {g \in Props(Frontend) : g.kind = "object-store"}}
    \cup {<<"NextjsFunction", h, "readWriteData">> :
        h \in {g \in StackOutputs(Frontend, stage) : g.kind = "key-value-table"}}

\* new FrontendStack(app, `${stackPrefix}-frontend`, {env, stage, sharedStack})
FrontendStack ==
    /\ pc = "frontend"
    /\ IF PropsDefined(Frontend)
       THEN /\ order' = Append(order, Frontend)
            /\ registry' = Publish(registry, Frontend, stage)
            /\ inputs' = inputs \cup {<<Frontend, h>> : h \in Props(Frontend)}
            /\ grants' = grants \cup FrontendGrants
            /\ pc' = NextPc(pc)
       ELSE /\ pc' = "thrown"
            /\ UNCHANGED <<order, registry, inputs, grants>>
    /\ UNCHANGED <<ctx, stage, deps, pipelineStages, subscriptions, alarms,
                   dashboard, budget, issues,
                   untouched>>

\* The dependency declared the wrong way round.
FrontendDependencyMutReversed ==
    /\ pc = "frontendDep"
    /\ deps' = deps \cup {<<Shared, Frontend>>}
    /\ pc' = NextPc(pc)
    /\ UNCHANGED <<ctx, stage, order, registry, inputs, grants, pipelineStages,
                   subscriptions, alarms, dashboard, budget, issues,
                   untouched>>

\* frontendStack.addDependency(sharedStack)
FrontendDependency ==
    /\ pc = "frontendDep"
    /\ deps' = deps \cup {<<Frontend, Shared>>}
    /\ pc' = NextPc(pc)
    /\ UNCHANGED <<ctx, stage, order, registry, inputs, grants, pipelineStages,
                   subscriptions, alarms, dashboard, budget, issues,
                   untouched>>

\* The pipeline created for production only.
CicdConditionMutProdOnly(stg, c) == stg = "prod"

\* if (stage === 'staging' || stage === 'prod') guarding new CicdStack
CicdCondition(stg, c) == stg = "staging" \/ stg = "prod"

\* The monitoring stack switched off by an enableMonitoring=false context value.
MonitoringConditionMutFlag(stg, c) ==
    (stg = "staging" \/ stg = "prod") /\ c.enableMonitoring # "false"

\* The monitoring stack created for staging only.
MonitoringConditionMutStagingOnly(stg, c) == stg = "staging"

\* if (stage === 'staging' || stage === 'prod') guarding new MonitoringStack
\* The monitoring block without its stage condition.
MonitoringConditionMutAllStages(stg, c) == TRUE

MonitoringCondition(stg, c) == stg = "staging" \/ stg = "prod"

\* Stages of CicdStack.pipeline: the stages array, then addStage for prod.
PipelineStages(stg) ==
    <<"Source", "Deploy">> \o (IF stg = "prod" THEN <<"ManualApproval">> ELSE <<>>)

\* The CI/CD block of app.ts: new CicdStack(...) and
\* cicdStack.addDependency(frontendStack).
CicdStack ==
    /\ pc = "cicd"
    /\ IF CicdCondition(stage, ctx)
       THEN /\ order' = Append(order, Cicd)
            /\ registry' = Publish(registry, Cicd, stage)
            /\ pipelineStages' = PipelineStages(stage)
            /\ deps' = deps \cup {<<Cicd, Frontend>>}
       ELSE UNCHANGED <<order, registry, pipelineStages, deps>>
    /\ pc' = NextPc(pc)
    /\ UNCHANGED <<ctx, stage, inputs, grants, subscriptions, alarms, dashboard,
                   budget, issues,
                   untouched>>

\* The cloudwatch.Alarm constructs of MonitoringStack, in source order:
\* construct id, kind of the props member measured, metric, statistic,
\* threshold, evaluationPeriods.
AlarmRule(id, kind, metric, statistic, threshold, periods) ==
    [id |-> id, kind |-> kind, metric |-> metric, statistic |-> statistic,
     threshold |-> threshold, evaluationPeriods |-> periods]

\* An error-rate rule that scales with the stage.
AlarmTableMutTiered(stg) ==
    <<AlarmRule("LambdaErrorRate", "compute-function", "Errors", "Sum",
                IF stg = "prod" THEN 5 ELSE 3, IF stg = "prod" THEN 2 ELSE 1),
      AlarmRule("LambdaDuration", "compute-function", "Duration", "Average", 10000, 3),
      AlarmRule("LambdaThrottles", "compute-function", "Throttles", "Sum", 1, 1),
      AlarmRule("ApiErrorRate", "http-endpoint", "5XXError", "Sum", 10, 2),
      AlarmRule("ApiLatency", "http-endpoint", "Latency", "Average", 5000, 3),
      AlarmRule("DynamoReadThrottles", "key-value-table", "ThrottledRequests", "Sum", 1, 1),
      AlarmRule("DynamoWriteThrottles", "key-value-table", "ThrottledRequests", "Sum", 1, 1),
      AlarmRule("CloudFrontErrorRate", "edge-cache", "4xxErrorRate", "Average", 10, 2)>>

AlarmTable(stg) ==
    <<AlarmRule("LambdaErrorRate", "compute-function", "Errors", "Sum", 5, 2),
      AlarmRule("LambdaDuration", "compute-function", "Duration", "Average", 10000, 3),
      AlarmRule("LambdaThrottles", "compute-function", "Throttles", "Sum", 1, 1),
      AlarmRule("ApiErrorRate", "http-endpoint", "5XXError", "Sum", 10, 2),
      AlarmRule("ApiLatency", "http-endpoint", "Latency", "Average", 5000, 3),
      AlarmRule("DynamoReadThrottles", "key-value-table", "ThrottledRequests", "Sum", 1, 1),
      AlarmRule("DynamoWriteThrottles", "key-value-table", "ThrottledRequests", "Sum", 1, 1),
      AlarmRule("CloudFrontErrorRate", "edge-cache", "4xxErrorRate", "Average", 10, 2)>>

\* An alarm on a resource the monitoring stack makes for itself.
AlarmTargetMutOwnResource(rule, props) ==
    [(CHOOSE h \in props : h.kind = rule.kind) EXCEPT !.producingNode = Monitoring]

\* The props member an alarm's metric is taken from.
AlarmTarget(rule, props) == CHOOSE h \in props : h.kind = rule.kind

\* The alarms, each with the alert topic added as its alarm action
\* ([...].forEach(alarm => alarm.addAlarmAction(new SnsAction(alertTopic)))).
\* The forEach list misses the last alarm.
AlarmsMutForgottenAlarm(stg, props, topic) ==
    [i \in 1..Len(AlarmTable(stg)) |->
        [rule |-> AlarmTable(stg)[i],
         targetHandle |-> AlarmTarget(AlarmTable(stg)[i], props),
         alarmActions |-> IF i = Len(AlarmTable(stg)) THEN {} ELSE {topic}]]

Alarms(stg, props, topic) ==
    [i \in 1..Len(AlarmTable(stg)) |->
        [rule |-> AlarmTable(stg)[i],
         targetHandle |-> AlarmTarget(AlarmTable(stg)[i], props),
         alarmActions |-> {topic}]]

\* Widget rows of the dashboard: title, kind of the member shown, metrics.
Widget(title, kind, metrics) == [title |-> title, kind |-> kind, metrics |-> metrics]

Dashboard ==
    <<Widget("Lambda Function Performance", "compute-function",
             {"Invocations", "Errors", "Throttles", "Duration"}),
      Widget("API Gateway Performance", "http-endpoint",
             {"Count", "4XXError", "5XXError", "Latency"}),
      Widget("DynamoDB Performance", "key-value-table",
             {"ConsumedReadCapacityUnits", "ConsumedWriteCapacityUnits",
              "SuccessfulRequestLatency"}),
      Widget("CloudFront Performance", "edge-cache",
             {"Requests", "BytesDownloaded", "CacheHitRate"})>>

\* subscribers: props.alertEmail ? [{EMAIL, address}] : []
Subscribers(email) == IF Truthy(email) THEN {email} ELSE {}

Notification(type, threshold, email) ==
    [notificationType |-> type, comparisonOperator |-> "GREATER_THAN",
     threshold |-> threshold, thresholdType |-> "PERCENTAGE",
     subscribers |-> Subscribers(email)]

\* The two notifications in the opposite order.
BudgetPolicyMutSwapped(email) ==
    [limitAmount |-> 100, unit |-> "USD", timeUnit |-> "MONTHLY",
     notifications |-> <<Notification("FORECASTED", 100, email),
                         Notification("ACTUAL", 80, email)>>]

\* budget and notificationsWithSubscribers of the CfnBudget
BudgetPolicy(email) ==
    [limitAmount |-> 100, unit |-> "USD", timeUnit |-> "MONTHLY",
     notifications |-> <<Notification("ACTUAL", 80, email),
                         Notification("FORECASTED", 100, email)>>]

\* The budget created whatever the stage.
CostBudgetMutAllStages(stg, email) == {BudgetPolicy(email)}

\* if (props.stage === 'prod') new budgets.CfnBudget(this, 'CostBudget', ...)
CostBudget(stg, email) == IF stg = "prod" THEN {BudgetPolicy(email)} ELSE {}

AlertTopic(stg) == CHOOSE h \in StackOutputs(Monitoring, stg) : h.kind = "alert-channel"

\* The monitoring block of app.ts: new MonitoringStack(...) with the members
\* of frontendStack and sharedStack, then the two addDependency calls.
MonitoringStack ==
    /\ pc = "monitoring"
    /\ IF ~MonitoringCondition(stage, ctx)
       THEN /\ pc' = NextPc(pc)
            /\ UNCHANGED <<order, registry, inputs, deps, subscriptions, alarms,
                           dashboard, budget>>
       ELSE IF ~PropsDefined(Monitoring)
       THEN /\ pc' = "thrown"
            /\ UNCHANGED <<order, registry, inputs, deps, subscriptions, alarms,
                           dashboard, budget>>
       ELSE /\ order' = Append(order, Monitoring)
            /\ registry' = Publish(registry, Monitoring, stage)
            /\ inputs' = inputs \cup {<<Monitoring, h>> : h \in Props(Monitoring)}
            /\ subscriptions' = Subscribers(ctx.alertEmail)
            /\ alarms' = Alarms(stage, Props(Monitoring), AlertTopic(stage))
            /\ dashboard' = Dashboard
            /\ budget' = CostBudget(stage, ctx.alertEmail)
            /\ deps' = deps \cup {<<Monitoring, Frontend>>, <<Monitoring, Shared>>}
            /\ pc' = NextPc(pc)
    /\ UNCHANGED <<ctx, stage, grants, pipelineStages, issues,
                   untouched>>

\* cdk.Tags.of(app).add(...): the last statements of the script
Tags ==
    /\ pc = "tags"
    /\ pc' = NextPc(pc)
    /\ UNCHANGED <<ctx, stage, order, registry, inputs, deps, grants,
                   pipelineStages, subscriptions, alarms, dashboard, budget,
                   issues,
                   untouched>>

(***************************************************************************)
(* LoggingConstruct: defined in lib/constructs, instantiated by no stack   *)
(* and by no statement of app.ts.                                          *)
(***************************************************************************)
\* this.centralLogGroup: a log group of the construct's own
centralLogGroup(props) ==
    [kind |-> "log-group", id |-> "CentralLogGroup",
     producingNode |-> "LoggingConstruct", stage |-> props.stage]

QueryDefinition(id, suffix, props) ==
    [id |-> id, name |-> <<props.applicationName, props.stage, suffix>>,
     logGroup |-> centralLogGroup(props)]

\* if (props.enableLogInsights !== false) this.logInsightsQueries.push(...)
logInsightsQueries(props) ==
    IF props.enableLogInsights # "false"
    THEN <<QueryDefinition("ErrorAnalysisQuery", "errors", props),
           QueryDefinition("PerformanceQuery", "performance", props),
           QueryDefinition("RequestVolumeQuery", "requests", props),
           QueryDefinition("ColdStartQuery", "coldstarts", props)>>
    ELSE <<>>

(***************************************************************************)
(* Validation pass over the finished topology: checks (a) to (e), in order.*)
(***************************************************************************)
Issue(kind, node, detail, fatal) ==
    [issueKind |-> kind, nodeId |-> node, detail |-> detail, fatal |-> fatal]

\* <<node, kind>> for the included nodes in construction order.
NodeKindPairs ==
    [i \in 1..(Len(order) * Len(KindOrder)) |->
        <<order[((i - 1) \div Len(KindOrder)) + 1],
          KindOrder[((i - 1) % Len(KindOrder)) + 1]>>]

\* (a) a required input of an included node that no Registry entry satisfies
DanglingInputs ==
    LET missing ==
            SelectSeq(NodeKindPairs,
                      LAMBDA p : /\ p[2] \in RequiredInputs(p[1])
                                 /\ ~\E h \in registry : h.kind = p[2])
    IN  [i \in 1..Len(missing) |->
            Issue("MissingInput", missing[i][1], missing[i][2], TRUE)]

Producers(kind) == {h.producingNode : h \in {g \in registry : g.kind = kind}}

\* (b) an output kind declared by more than one included node
DuplicateOutputs ==
    LET dup == SelectSeq(KindOrder, LAMBDA k : Cardinality(Producers(k)) > 1)
    IN  [i \in 1..Len(dup) |-> Issue("DuplicateOutput", "topology", dup[i], TRUE)]

\* (c) a threshold rule whose target is not in the Registry
UnresolvedTargets ==
    LET lost == SelectSeq(alarms, LAMBDA a : a.targetHandle \notin registry)
    IN  [i \in 1..Len(lost) |->
            Issue("UnresolvedTarget", Monitoring, lost[i].rule.id, TRUE)]

\* (d) a budget outside production
IllegalBudget ==
    IF budget # {} /\ stage # "prod"
    THEN <<Issue("BudgetOutsideProduction", Monitoring, stage, TRUE)>>
    ELSE <<>>

\* (e) alertEmail given but no observability node to use it
UnusedConfiguration ==
    IF Truthy(ctx.alertEmail) /\ ~Included(Monitoring)
    THEN <<Issue("UnusedConfiguration", Monitoring, "alertEmail", FALSE)>>
    ELSE <<>>

\* A pass that returns at the first issue it finds.
validateMutStopsAtFirst ==
    LET all == DanglingInputs \o DuplicateOutputs \o UnresolvedTargets
               \o IllegalBudget \o UnusedConfiguration
    IN  IF all = <<>> THEN <<>> ELSE <<all[1]>>

validate ==
    DanglingInputs \o DuplicateOutputs \o UnresolvedTargets \o IllegalBudget
    \o UnusedConfiguration

Fatal(iss) == SelectSeq(iss, LAMBDA i : i.fatal)

\* validate(topology) applied to the topology the script has built
Validate ==
    /\ pc = "done"
    /\ issues' = validate
    /\ pc' = "validated"
    /\ UNCHANGED <<ctx, stage, order, registry, inputs, deps, grants,
                   pipelineStages, subscriptions, alarms, dashboard, budget,
                   untouched>>

\* Handoff that proceeds whenever the issue list is empty of errors of any
\* kind, warnings included.
HandoffOutcomeMutAnyIssue(iss) == IF iss = <<>> THEN "success" ELSE "failure"

\* Exit-status contract: success when validate returned no fatal issue.
HandoffOutcome(iss) == IF Fatal(iss) = <<>> THEN "success" ELSE "failure"

\* The entry point hands the validated topology to the provisioning step.
Handoff ==
    /\ pc = "validated"
    /\ exitStatus' = HandoffOutcome(issues)
    /\ pc' = "handed"
    /\ UNCHANGED <<ctx, stage, order, registry, inputs, deps, grants,
                   pipelineStages, subscriptions, alarms, dashboard, budget,
                   issues, logQueries, first, run, parked, execution,
                   event, jobs, optimized>>

Next ==
    \/ ReadStage
    \/ ValidateStage
    \/ SharedStack
    \/ FrontendStack
    \/ FrontendDependency
    \/ CicdStack
    \/ MonitoringStack
    \/ Tags
    \/ Validate
    \/ Handoff

Spec == Init /\ [][Next]_vars

(***************************************************************************)
(* Derived notions the properties are stated with.                         *)
(***************************************************************************)
\* The script has run to its end: the topology is built.
Built == pc \in {"done", "validated", "handed"}

\* Producer -> consumer: the consumer is passed a member of the producer.
DerivedEdges ==
    {e \in Nodes \X Nodes :
        /\ Included(e[1]) /\ Included(e[2])
        /\ \E k \in RequiredInputs(e[2]) : Wiring(e[2], k) = e[1]}

\* Dependency -> dependent, from the addDependency calls.
DeclaredEdges == {<<d[2], d[1]>> : d \in deps}

Compose(R, S) ==
    {e \in Nodes \X Nodes : \E m \in Nodes : <<e[1], m>> \in R /\ <<m, e[2]>> \in S}

\* Paths of one to four edges: every path among four nodes.
Closure(R) ==
    LET R2 == R \cup Compose(R, R)
        R3 == R2 \cup Compose(R2, R)
    IN  R3 \cup Compose(R3, R)

Position(n) == CHOOSE i \in 1..Len(order) : order[i] = n

Related(a, b) ==
    <<a, b>> \in Closure(DerivedEdges) \/ <<b, a>> \in Closure(DerivedEdges)

IncludedNodes == {n \in Nodes : Included(n)}

\* C1 (as stated): build, then validate, returns no fatal issue for any tier
\* and any flags.
C1_NoFatalIssue == pc = "validated" => Fatal(issues) = <<>>

\* C1 (amended): validate on the built topology never reports a dangling
\* input, an unresolved threshold target or a budget outside production; its
\* only fatal issue is the duplicated object-store kind, reported exactly
\* when the stage is staging or prod.
C1_OnlyDuplicateObjectStore ==
    pc = "validated" =>
        Fatal(issues) =
            IF stage \in {"staging", "prod"}
            THEN <<Issue("DuplicateOutput", "topology", "object-store", TRUE)>>
            ELSE <<>>

C1_Witness ==
    pc = "validated" /\ stage = "prod" /\ budget # {} /\ Len(alarms) > 0

\* C2: delivery-pipeline and observability are in the built topology iff the
\* stage is staging or prod; for dev both are absent whatever the flags.
C2_PresentIffStagingOrProd ==
    Built =>
        /\ Included(Cicd) <=> stage \in {"staging", "prod"}
        /\ Included(Monitoring) <=> stage \in {"staging", "prod"}
        /\ stage = "dev" => ~Included(Cicd) /\ ~Included(Monitoring)

C2_Witness ==
    /\ Built /\ stage = "dev"
    /\ ctx.enableDelivery = "true" /\ ctx.enableMonitoring = "true"
    /\ ~Included(Cicd) /\ ~Included(Monitoring)

NotDisabled(flag) == flag # "false"

\* C3 (as stated): the two shared nodes are always included, and
\* delivery-pipeline (observability) exactly when the stage is staging or
\* prod and enableDelivery (enableMonitoring) is not explicitly disabled.
C3_FlagsExclude ==
    Built =>
        /\ Included(Shared) /\ Included(Frontend)
        /\ Included(Cicd) <=>
              (stage \in {"staging", "prod"} /\ NotDisabled(ctx.enableDelivery))
        /\ Included(Monitoring) <=>
              (stage \in {"staging", "prod"} /\ NotDisabled(ctx.enableMonitoring))

\* C3 (amended): the built topology is exactly edge+storage and
\* application-runtime for dev and all four nodes for staging and prod,
\* also when enableDelivery or enableMonitoring is explicitly disabled.
C3_FlagsIgnored ==
    Built =>
        IncludedNodes = IF stage \in {"staging", "prod"}
                        THEN {Shared, Frontend, Cicd, Monitoring}
                        ELSE {Shared, Frontend}

C3_Witness ==
    /\ Built /\ stage = "staging"
    /\ ctx.enableDelivery = "false" /\ ctx.enableMonitoring = "false"
    /\ Included(Cicd) /\ Included(Monitoring)

\* C4: a budget is part of the monitoring configuration iff the stage is prod.
C4_BudgetIffProd == Built => (budget # {} <=> stage = "prod")

C4_Witness == Built /\ stage = "prod" /\ Cardinality(budget) = 1

\* C5: the construction order is a topological order of the derived
\* dependency graph over the included nodes, and nodes with no dependency
\* relation are constructed in declaration order.
C5_TopologicalOrder ==
    \A a, b \in Nodes :
        Included(a) /\ Included(b) =>
            /\ <<a, b>> \in DerivedEdges => Position(a) < Position(b)
            /\ (~Related(a, b) /\ DeclIndex(a) < DeclIndex(b)) =>
                  Position(a) < Position(b)

C5_Witness ==
    /\ Built /\ Len(order) = Len(Declaration)
    /\ ~Related(Cicd, Monitoring) /\ Position(Cicd) < Position(Monitoring)
    /\ <<Frontend, Monitoring>> \in DerivedEdges

\* C6: every required input kind of every included node is produced by
\* another included node, for every valid stage and all flags: no run for a
\* valid stage stops on an undefined member.
C6_NoDanglingInput ==
    /\ pc = "thrown" => stage \notin ValidStageSet
    /\ \A n \in Nodes :
          Included(n) =>
              \A k \in RequiredInputs(n) :
                  \E h \in registry :
                      /\ h.kind = k /\ <<n, h>> \in inputs
                      /\ h.producingNode # n /\ Included(h.producingNode)

C6_Witness ==
    /\ Built /\ Included(Monitoring)
    /\ Cardinality({e \in inputs : e[1] = Monitoring}) = Cardinality(RequiredInputs(Monitoring))

\* C7 (as stated): no two included nodes declare the same output kind.
C7_OutputKindsUnique == \A k \in Kinds : Cardinality(Producers(k)) <= 1

\* C7 (amended): no output kind other than object-store is declared by two
\* included nodes; object-store is declared by edge+storage alone in dev and
\* by both edge+storage and delivery-pipeline once the latter is included.
C7_OnlyObjectStoreShared ==
    /\ \A k \in Kinds \ {"object-store"} : Cardinality(Producers(k)) <= 1
    /\ Producers("object-store") =
          {n \in {Shared, Cicd} : Included(n)}

C7_Witness ==
    Built /\ Producers("object-store") = {Shared, Cicd}

\* C8: the dependency graph over the included nodes, derived and declared
\* edges together, has no cycle.
C8_Acyclic ==
    \A n \in Nodes : <<n, n>> \notin Closure(DerivedEdges \cup DeclaredEdges)

C8_Witness ==
    /\ Built /\ Len(order) = Len(Declaration)
    /\ <<Shared, Monitoring>> \in Closure(DerivedEdges \cup DeclaredEdges)
    /\ <<Shared, Cicd>> \in Closure(DerivedEdges \cup DeclaredEdges)

\* C9 (as stated): the dependency edges declared to order construction are
\* exactly the derived ones; nodes that exchange no handle have no edge.
C9_OnlyDerivedEdges == Built => DeclaredEdges = DerivedEdges

\* C10: every threshold rule targets a handle that is in the Registry and
\* whose owning node is included for the current stage.
C10_TargetsResolve ==
    \A i \in 1..Len(alarms) :
        /\ alarms[i].targetHandle \in registry
        /\ Included(alarms[i].targetHandle.producingNode)
        /\ alarms[i].targetHandle.stage = stage

C10_Witness ==
    /\ Built /\ Len(alarms) = Len(AlarmTable(stage))
    /\ \E i \in 1..Len(alarms) : alarms[i].targetHandle.producingNode = Shared

Validated == pc \in {"validated", "handed"}

Warnings(iss) == SelectSeq(iss, LAMBDA i : i.issueKind = "UnusedConfiguration")

\* C11: validate returns exactly one UnusedConfiguration warning when an
\* alertEmail is given and observability was excluded, none when
\* observability is included (so none for staging and prod), and the warning
\* is never fatal.
C11_UnusedConfigurationWarning ==
    Validated =>
        /\ (ctx.alertEmail \in AlertEmails /\ ~Included(Monitoring)) =>
              Len(Warnings(issues)) = 1
        /\ Included(Monitoring) => Warnings(issues) = <<>>
        /\ stage \in {"staging", "prod"} => Warnings(issues) = <<>>
        /\ Warnings(Fatal(issues)) = <<>>
        /\ \A i \in 1..Len(issues) :
              issues[i].issueKind = "UnusedConfiguration" => ~issues[i].fatal

C11_Witness ==
    /\ Validated /\ stage = "dev" /\ ctx.alertEmail \in AlertEmails
    /\ Len(issues) = 1 /\ issues[1].issueKind = "UnusedConfiguration"
    /\ Fatal(issues) = <<>>

(***************************************************************************)
(* The validation pass and the handoff on arbitrary finished topologies,   *)
(* sound or faulty: any set of nodes, any set of published handles, with   *)
(* or without threshold rules and budget.                                  *)
(***************************************************************************)
\* The nodes of a set in declaration order.
InOrder(ns) == SelectSeq(Declaration, LAMBDA n : n \in ns)

Published(ns, stg) == UNION {StackOutputs(n, stg) : n \in ns}

InitFaulty ==
    /\ ctx \in {c \in Context : /\ c.stage = Undefined
                                /\ c.enableDelivery = Undefined
                                /\ c.enableMonitoring = Undefined}
    /\ pc = "done"
    /\ stage \in ValidStageSet
    /\ \E ns \in SUBSET Nodes : order = InOrder(ns)
    /\ \E ns \in SUBSET Nodes : registry = Published(ns, stage)
    /\ inputs = {}
    /\ deps = {}
    /\ grants = {}
    /\ pipelineStages = <<>>
    /\ subscriptions = {}
    /\ alarms \in {<<>>,
                   Alarms(stage, Published({Shared, Frontend}, stage),
                          AlertTopic(stage))}
    /\ dashboard = <<>>
    /\ budget \in {{}, {BudgetPolicy(ctx.alertEmail)}}
    /\ issues = <<>>
    /\ exitStatus = Undefined
    /\ logQueries = <<>>
    /\ first = <<>>
    /\ run = 1
    /\ parked = <<>>
    /\ execution = [status |-> "idle", ran |-> <<>>, approved |-> FALSE]
    /\ event = <<>>
    /\ jobs = [j \in Jobs |-> "pending"]
    /\ optimized = <<>>

NextFaulty ==
    \/ Validate
    \/ Handoff

SpecFaulty == InitFaulty /\ [][NextFaulty]_vars

\* Every fault of the topology, as a set.
Faults ==
    {Issue("MissingInput", p[1], p[2], TRUE) :
        p \in {q \in Nodes \X Kinds :
                 /\ Included(q[1]) /\ q[2] \in RequiredInputs(q[1])
                 /\ \A h \in registry : h.kind # q[2]}}
    \cup {Issue("DuplicateOutput", "topology", k, TRUE) :
            k \in {y \in Kinds : \E g, h \in registry :
                     g.kind = y /\ h.kind = y /\ g.producingNode # h.producingNode}}
    \cup {Issue("UnresolvedTarget", Monitoring, alarms[i].rule.id, TRUE) :
            i \in {j \in 1..Len(alarms) : alarms[j].targetHandle \notin registry}}
    \cup {Issue("BudgetOutsideProduction", Monitoring, stage, TRUE) :
            b \in {x \in budget : stage # "prod"}}
    \cup {Issue("UnusedConfiguration", Monitoring, "alertEmail", FALSE) :
            e \in {x \in {ctx.alertEmail} : Truthy(x) /\ ~Included(Monitoring)}}

\* Position of a check among (a) to (e).
CheckRank(kind) ==
    CASE kind = "MissingInput" -> 1
      [] kind = "DuplicateOutput" -> 2
      [] kind = "UnresolvedTarget" -> 3
      [] kind = "BudgetOutsideProduction" -> 4
      [] kind = "UnusedConfiguration" -> 5

\* C13: validate returns every issue of checks (a) to (e) in one pass, each
\* once, in check order, also when the topology has several independent
\* faults.
C13_Exhaustive ==
    Validated =>
        /\ {issues[i] : i \in 1..Len(issues)} = Faults
        /\ Len(issues) = Cardinality(Faults)
        /\ \A i, j \in 1..Len(issues) :
              i < j => CheckRank(issues[i].issueKind) <= CheckRank(issues[j].issueKind)

C13_Witness ==
    /\ Validated
    /\ Cardinality({issues[i].issueKind : i \in 1..Len(issues)}) >= 4
    /\ Len(issues) > Cardinality({issues[i].issueKind : i \in 1..Len(issues)})

\* C14: the handoff succeeds iff validate returned no fatal issue: any issue
\* of checks (a) to (d) makes it fail, UnusedConfiguration warnings alone
\* do not.
C14_HandoffIffNoFatal ==
    pc = "handed" =>
        /\ exitStatus = "success" <=>
              \A i \in 1..Len(issues) : issues[i].issueKind = "UnusedConfiguration"
        /\ exitStatus = "failure" <=>
              \E i \in 1..Len(issues) : CheckRank(issues[i].issueKind) <= 4

C14_Witness ==
    /\ pc = "handed" /\ exitStatus = "success"
    /\ Len(issues) = 1 /\ issues[1].issueKind = "UnusedConfiguration"

ErrorRateRules == {i \in 1..Len(alarms) : alarms[i].rule.id = "LambdaErrorRate"}

\* C16 (as stated): the error-rate rule's threshold and evaluation-window
\* count are smaller for a lower tier than for production.
C16_TierDependent ==
    (Built /\ stage = "staging") =>
        \A i \in ErrorRateRules :
            /\ alarms[i].rule.threshold < AlarmTable("prod")[i].threshold
            /\ alarms[i].rule.evaluationPeriods < AlarmTable("prod")[i].evaluationPeriods

\* C16 (amended): the rules have the same numeric parameters for every tier
\* that gets rules; the error-rate rule has threshold 5 over 2 evaluation
\* windows in staging and in production alike.
C16_SameForEveryTier ==
    (Built /\ Included(Monitoring)) =>
        /\ Len(alarms) = Len(AlarmTable("prod"))
        /\ \A i \in 1..Len(alarms) : alarms[i].rule = AlarmTable("prod")[i]
        /\ ErrorRateRules # {}
        /\ \A i \in ErrorRateRules :
              alarms[i].rule.threshold = 5 /\ alarms[i].rule.evaluationPeriods = 2

C16_Witness ==
    /\ Built /\ stage = "staging" /\ ErrorRateRules # {}
    /\ \A i \in ErrorRateRules : alarms[i].rule = AlarmTable("prod")[i]

Panels(kind) == {i \in 1..Len(dashboard) : dashboard[i].kind = kind}

\* C17 (as stated): there is exactly one dashboard panel group per resource
\* kind present in the Registry, and the metric of every threshold rule is
\* among the metrics of its kind's panel.
C17_PanelsCoverRules ==
    (Built /\ Included(Monitoring)) =>
        /\ \A k \in Kinds :
              (\E h \in registry : h.kind = k) => Cardinality(Panels(k)) = 1
        /\ \A i \in 1..Len(alarms) :
              \E j \in Panels(alarms[i].rule.kind) :
                  alarms[i].rule.metric \in dashboard[j].metrics

DefaultLoggingProps ==
    [stage |-> stage, applicationName |-> "nextjs-playground",
     enableLogInsights |-> Undefined]

\* C18 (as stated): derive produces exactly one log-query descriptor for
\* each of the four analysis categories, each bound to the log handle
\* produced by application-runtime.
C18_FourLogQueries ==
    (Built /\ Included(Monitoring)) =>
        /\ Len(logQueries) = Len(logInsightsQueries(DefaultLoggingProps))
        /\ {logQueries[i].id : i \in 1..Len(logQueries)} =
              {"ErrorAnalysisQuery", "PerformanceQuery", "RequestVolumeQuery",
               "ColdStartQuery"}
        /\ \A i \in 1..Len(logQueries) :
              logQueries[i].logGroup.producingNode = Frontend

(***************************************************************************)
(* The script run more than once with the same context and environment:    *)
(* each run starts from a fresh cdk.App; the previous run's result is kept *)
(* in first for comparison.                                                *)
(***************************************************************************)
Calls == 2

Finished == pc \in {"done", "thrown"}

\* What one run of the script yields: outcome, nodes, edges, Registry and
\* the derived configuration.
Result ==
    [pc |-> pc, order |-> order, registry |-> registry, inputs |-> inputs,
     deps |-> deps, grants |-> grants, pipelineStages |-> pipelineStages,
     subscriptions |-> subscriptions, alarms |-> alarms,
     dashboard |-> dashboard, budget |-> budget]

Rerun ==
    /\ Finished
    /\ run < Calls
    /\ first' = <<Result>>
    /\ run' = run + 1
    /\ pc' = Script[1]
    /\ stage' = Undefined
    /\ order' = <<>>
    /\ registry' = {}
    /\ inputs' = {}
    /\ deps' = {}
    /\ grants' = {}
    /\ pipelineStages' = <<>>
    /\ subscriptions' = {}
    /\ alarms' = <<>>
    /\ dashboard' = <<>>
    /\ budget' = {}
    /\ UNCHANGED <<ctx, issues, exitStatus, logQueries, parked, execution,
                   event, jobs, optimized>>

NextPair ==
    \/ ReadStage
    \/ ValidateStage
    \/ SharedStack
    \/ FrontendStack
    \/ FrontendDependency
    \/ CicdStack
    \/ MonitoringStack
    \/ Tags
    \/ Rerun

SpecPair == Init /\ [][NextPair]_vars

C20_DeriveChangesNothing ==
    [][pc = "monitoring" => (order' = order /\ registry' = registry)]_vars

\* What the monitoring constructor may add to the Registry
MonitoringOutputs == StackOutputs(Monitoring, stage)

\* C20 (amended): the deriving call changes no node, edge or handle that
\* existed before it and adds at most the observability node with its own
\* alert-channel and dashboard handles; a later derivation on an equal
\* topology yields an equal configuration.
C20_DeriveRepeatable ==
    /\ [][pc = "monitoring" =>
             /\ registry \subseteq registry'
             /\ registry' \ registry \subseteq MonitoringOutputs
             /\ SubSeq(order', 1, Len(order)) = order
             /\ \A i \in Len(order) + 1 .. Len(order') : order'[i] = Monitoring
             /\ inputs \subseteq inputs'
             /\ \A e \in inputs' \ inputs : e[1] = Monitoring
             /\ deps \subseteq deps'
             /\ \A e \in deps' \ deps : e[1] = Monitoring
             /\ grants' = grants]_vars
    /\ []((run > 1 /\ Finished /\ Included(Monitoring)) =>
             /\ alarms = first[1].alarms
             /\ dashboard = first[1].dashboard
             /\ budget = first[1].budget
             /\ subscriptions = first[1].subscriptions)

C20_Witness ==
    /\ run > 1 /\ pc = "done" /\ Included(Monitoring)
    /\ alarms # <<>> /\ alarms = first[1].alarms
    /\ MonitoringOutputs \subseteq registry

\* C21: a handle enters the Registry once, in the step that instantiates its
\* owning node, and no later step (in particular none that consumes it)
\* removes or alters it or instantiates its owner again.
C21_HandlesImmutable ==
    /\ [][/\ registry \subseteq registry'
          /\ \A h \in registry' \ registry :
                /\ Len(order') = Len(order) + 1
                /\ h.producingNode = order'[Len(order')]
                /\ ~Included(h.producingNode)]_vars
    /\ [](\A h \in registry : Included(h.producingNode))
    /\ [](\A i, j \in 1..Len(order) : order[i] = order[j] => i = j)

C21_Witness ==
    /\ Built
    /\ \E e \in inputs :
          e[1] = Frontend /\ e[2].kind = "object-store"
          /\ e[2].producingNode = Shared /\ e[2] \in registry
    /\ \E e \in inputs :
          e[1] = Monitoring /\ e[2].kind = "compute-function"
          /\ e[2].producingNode = Frontend /\ e[2] \in registry

(***************************************************************************)
(* Two constructions in one process.  After a construction run alone       *)
(* (kept in first), the same construction is started again together with   *)
(* a second one, each on its own cdk.App; control passes between the two   *)
(* at any statement boundary.                                              *)
(***************************************************************************)
\* Everything a construction holds: its context, its position in the
\* script and its construct tree.
Construction(who) ==
    [who |-> who, ctx |-> ctx, pc |-> pc, stage |-> stage, order |-> order,
     registry |-> registry, inputs |-> inputs, deps |-> deps,
     grants |-> grants, pipelineStages |-> pipelineStages,
     subscriptions |-> subscriptions, alarms |-> alarms,
     dashboard |-> dashboard, budget |-> budget]

\* const app = new cdk.App(): a construction with nothing built yet
Fresh(who, c) ==
    [who |-> who, ctx |-> c, pc |-> Script[1], stage |-> Undefined,
     order |-> <<>>, registry |-> {}, inputs |-> {}, deps |-> {},
     grants |-> {}, pipelineStages |-> <<>>, subscriptions |-> {},
     alarms |-> <<>>, dashboard |-> <<>>, budget |-> {}]

\* Contexts of the second construction: any stage, the same alert address.
OtherContexts ==
    {c \in Context : c.alertEmail = ctx.alertEmail
                     /\ c.enableDelivery = Undefined
                     /\ c.enableMonitoring = Undefined}

Running == IF parked = <<>> THEN "A" ELSE IF parked[1].who = "A" THEN "B" ELSE "A"

Resume(c) ==
    /\ ctx' = c.ctx
    /\ pc' = c.pc
    /\ stage' = c.stage
    /\ order' = c.order
    /\ registry' = c.registry
    /\ inputs' = c.inputs
    /\ deps' = c.deps
    /\ grants' = c.grants
    /\ pipelineStages' = c.pipelineStages
    /\ subscriptions' = c.subscriptions
    /\ alarms' = c.alarms
    /\ dashboard' = c.dashboard
    /\ budget' = c.budget

\* The construction run alone has finished: start it again, and a second
\* construction beside it.
Fork ==
    /\ Finished
    /\ run = 1
    /\ first' = <<Construction("A")>>
    /\ run' = 2
    /\ Resume(Fresh("A", ctx))
    /\ \E c \in OtherContexts : parked' = <<Fresh("B", c)>>
    /\ UNCHANGED <<issues, exitStatus, logQueries, execution, event, jobs, optimized>>

\* Control passes from the running construction to the other one.
Switch ==
    /\ run = 2
    /\ parked # <<>>
    /\ parked' = <<Construction(Running)>>
    /\ Resume(parked[1])
    /\ UNCHANGED <<issues, exitStatus, logQueries, first, run, execution,
                   event, jobs, optimized>>

NextInterleaved ==
    \/ ReadStage
    \/ ValidateStage
    \/ SharedStack
    \/ FrontendStack
    \/ FrontendDependency
    \/ CicdStack
    \/ MonitoringStack
    \/ Tags
    \/ Fork
    \/ Switch

SpecInterleaved == Init /\ [][NextInterleaved]_vars

\* The construction c ended as the construction run alone did.
SameAsAlone(c) ==
    /\ c.pc = first[1].pc
    /\ c.stage = first[1].stage
    /\ c.order = first[1].order
    /\ c.registry = first[1].registry
    /\ c.inputs = first[1].inputs
    /\ c.deps = first[1].deps
    /\ c.grants = first[1].grants
    /\ c.pipelineStages = first[1].pipelineStages
    /\ c.subscriptions = first[1].subscriptions
    /\ c.alarms = first[1].alarms
    /\ c.dashboard = first[1].dashboard
    /\ c.budget = first[1].budget

Both == {Construction(Running)} \cup {parked[i] : i \in 1..Len(parked)}

PassedStage == IF Truthy(ctx.stage) THEN ctx.stage ELSE "dev"

\* C23: every member of every included stack carries the one stage value
\* that was passed in, and neither the stage nor the context changes once
\* the stage has been read.
C23_OneTier ==
    /\ [](\A h \in registry : h.stage = stage)
    /\ [](pc # "readStage" => stage = PassedStage)
    /\ [][pc # "readStage" => (stage' = stage /\ ctx' = ctx)]_vars

C23_Witness ==
    /\ Built /\ stage = "staging" /\ ctx.stage = "staging"
    /\ \A n \in Nodes : \E h \in registry : h.producingNode = n /\ h.stage = "staging"

\* C24: for stage dev with enableDelivery and enableMonitoring disabled the
\* topology holds exactly the shared and the frontend stack, and there are
\* no threshold rules and no budget.
C24_ScenarioA ==
    (Built /\ stage = "dev" /\ ctx.enableDelivery = "false"
           /\ ctx.enableMonitoring = "false") =>
        /\ {n \in Nodes : Included(n)} = {Shared, Frontend}
        /\ Len(order) = 2
        /\ alarms = <<>>
        /\ budget = {}

C24_Witness ==
    /\ Built /\ stage = "dev" /\ ctx.enableDelivery = "false"
    /\ ctx.enableMonitoring = "false" /\ order = <<Shared, Frontend>>

(***************************************************************************)
(* Executions of CicdStack.pipeline once the application is deployed: the  *)
(* stages run one after the other in the order the pipeline holds them.    *)
(***************************************************************************)
scriptVars ==
    <<ctx, pc, stage, order, registry, inputs, deps, grants, pipelineStages,
      subscriptions, alarms, dashboard, budget, issues, exitStatus,
      logQueries, first, run, parked, event, jobs, optimized>>

NextStage == pipelineStages[Len(execution.ran) + 1]

After(ran) ==
    IF Len(ran) = Len(pipelineStages) THEN "succeeded" ELSE "running"

\* GitHubTrigger.WEBHOOK: a push to the branch starts an execution
StartExecution ==
    /\ pc = "done"
    /\ Included(Cicd)
    /\ execution.status # "running"
    /\ execution' = [status |-> "running", ran |-> <<>>, approved |-> FALSE]
    /\ UNCHANGED scriptVars

\* The Source and Deploy stages run their action without asking anyone.
RunStage ==
    /\ execution.status = "running"
    /\ NextStage # "ManualApproval"
    /\ execution' = [execution EXCEPT !.ran = Append(@, NextStage),
                                      !.status = After(Append(execution.ran, NextStage))]
    /\ UNCHANGED scriptVars

\* ManualApprovalAction 'ProductionApproval': approved by a person
Approve ==
    /\ execution.status = "running"
    /\ NextStage = "ManualApproval"
    /\ execution' = [execution EXCEPT !.ran = Append(@, NextStage),
                                      !.approved = TRUE,
                                      !.status = After(Append(execution.ran, NextStage))]
    /\ UNCHANGED scriptVars

\* ManualApprovalAction 'ProductionApproval': rejected by a person
Reject ==
    /\ execution.status = "running"
    /\ NextStage = "ManualApproval"
    /\ execution' = [execution EXCEPT !.status = "failed"]
    /\ UNCHANGED scriptVars

NextPipeline ==
    \/ ReadStage
    \/ ValidateStage
    \/ SharedStack
    \/ FrontendStack
    \/ FrontendDependency
    \/ CicdStack
    \/ MonitoringStack
    \/ Tags
    \/ StartExecution
    \/ RunStage
    \/ Approve
    \/ Reject

SpecPipeline == Init /\ [][NextPipeline]_vars

Ran(name) == \E i \in 1..Len(execution.ran) : execution.ran[i] = name

\* C25 (as stated): in the production pipeline the Deploy stage has not run
\* in an execution unless ManualApproval has been approved in it; and the
\* pipeline has a ManualApproval stage exactly when the stage is prod.
C25_DeployAfterApproval ==
    Included(Cicd) =>
        /\ (stage = "prod" /\ Ran("Deploy")) => execution.approved
        /\ (\E i \in 1..Len(pipelineStages) : pipelineStages[i] = "ManualApproval")
              <=> stage = "prod"

(***************************************************************************)
(* The deploy workflow (.github/workflows): one run, started by one event. *)
(***************************************************************************)
\* Number of refs tried besides master and develop.
MaxOtherRefs == 2

OtherRefs == {"refs/tags/v" \o ToString(i) : i \in 1..MaxOtherRefs}

Refs == {"refs/heads/master", "refs/heads/develop"} \cup OtherRefs

\* inputs.environment: type choice, options staging and production
EnvironmentOptions == {"staging", "production"}

Events ==
    [event_name : {"push"}, ref : Refs, environment : {Undefined}]
    \cup [event_name : {"workflow_dispatch"}, ref : Refs,
          environment : EnvironmentOptions]

\* on: push: branches: [ master ]; workflow_dispatch
Triggers(e) ==
    \/ e.event_name = "push" /\ e.ref = "refs/heads/master"
    \/ e.event_name = "workflow_dispatch"

\* if: of deploy-staging
DeployStagingIf(e) ==
    \/ e.ref = "refs/heads/master"
    \/ e.event_name = "workflow_dispatch" /\ e.environment = "staging"

\* The production job also enabled by the ref.
DeployProductionIfMutMaster(e) ==
    \/ e.ref = "refs/heads/master"
    \/ e.event_name = "workflow_dispatch" /\ e.environment = "production"

\* if: of deploy-production
DeployProductionIf(e) ==
    e.event_name = "workflow_dispatch" /\ e.environment = "production"

\* if: of each job; notify-deployment has if: always()
JobIf(j, e) ==
    IF j = "deploy-staging" THEN DeployStagingIf(e)
    ELSE IF j = "deploy-production" THEN DeployProductionIf(e)
    ELSE TRUE

\* needs: of each job
Needs(j) == IF j = "notify-deployment" THEN {"deploy-staging"} ELSE {}

Completed == {"success", "failure", "skipped"}

Trigger ==
    /\ event = <<>>
    /\ \E e \in Events : Triggers(e) /\ event' = <<e>>
    /\ UNCHANGED <<ctx, pc, stage, order, registry, inputs, deps, grants,
                   pipelineStages, subscriptions, alarms, dashboard, budget,
                   issues, exitStatus, logQueries, first, run, parked,
                   execution, jobs, optimized>>

StartJob ==
    /\ event # <<>>
    /\ \E j \in Jobs :
          /\ jobs[j] = "pending"
          /\ \A n \in Needs(j) : jobs[n] \in Completed
          /\ jobs' = [jobs EXCEPT ![j] = IF JobIf(j, event[1]) THEN "running"
                                         ELSE "skipped"]
    /\ UNCHANGED <<ctx, pc, stage, order, registry, inputs, deps, grants,
                   pipelineStages, subscriptions, alarms, dashboard, budget,
                   issues, exitStatus, logQueries, first, run, parked,
                   execution, event, optimized>>

FinishJob ==
    /\ \E j \in Jobs :
          /\ jobs[j] = "running"
          /\ \E r \in {"success", "failure"} : jobs' = [jobs EXCEPT ![j] = r]
    /\ UNCHANGED <<ctx, pc, stage, order, registry, inputs, deps, grants,
                   pipelineStages, subscriptions, alarms, dashboard, budget,
                   issues, exitStatus, logQueries, first, run, parked,
                   execution, event, optimized>>

InitWorkflow ==
    /\ Init
    /\ ctx = [stage |-> Undefined, alertEmail |-> Undefined,
              enableDelivery |-> Undefined, enableMonitoring |-> Undefined]

NextWorkflow == Trigger \/ StartJob \/ FinishJob

SpecWorkflow == InitWorkflow /\ [][NextWorkflow]_vars

HasRun(j) == jobs[j] \in {"running", "success", "failure"}

\* C26: deploy-production runs only in a run started by a workflow_dispatch
\* whose environment input is production, never in one started by a push;
\* and in every such dispatched run it is not skipped.
C26_ProductionOnlyByDispatch ==
    /\ HasRun("deploy-production") =>
          /\ event[1].event_name = "workflow_dispatch"
          /\ event[1].environment = "production"
    /\ (event # <<>> /\ event[1].event_name = "push") =>
          jobs["deploy-production"] \in {"pending", "skipped"}
    /\ jobs["deploy-production"] = "skipped" =>
          ~(event[1].event_name = "workflow_dispatch"
            /\ event[1].environment = "production")

C26_Witness ==
    /\ jobs["deploy-production"] = "success"
    /\ event[1].event_name = "workflow_dispatch"
    /\ event[1].environment = "production"

\* C29 (as stated): in one run of the deploy workflow at most one of
\* deploy-staging and deploy-production runs.
C29_AtMostOneDeploy ==
    ~(HasRun("deploy-staging") /\ HasRun("deploy-production"))

(***************************************************************************)
(* NextjsOptimized (lib/constructs): the memory size of its function.      *)
(***************************************************************************)
\* memorySize values tried are the multiples of 128 up to 128 * this.
MaxMemoryUnits == 10

MemorySizes == {128 * i : i \in 0..MaxMemoryUnits}

\* NextjsOptimizedProps: stage: string; memorySize?: number ({} when absent)
NextjsOptimizedProps ==
    [stage : ValidStageSet \cup OtherStages,
     memorySize : {{}} \cup {{n} : n \in MemorySizes}]

\* Every stage but prod gets the development size.
getOptimalMemorySizeMutProdOnly(stg) ==
    IF stg = "prod" THEN 1024 ELSE 512

\* private getOptimalMemorySize(stage: string): number
getOptimalMemorySize(stg) ==
    IF stg = "prod" THEN 1024
    ELSE IF stg = "staging" THEN 768
    ELSE 512

\* JavaScript truthiness of an optional number
TruthyNumber(opt) == opt # {} /\ 0 \notin opt

\* const memorySize = props.memorySize || this.getOptimalMemorySize(props.stage)
memorySize(props) ==
    IF TruthyNumber(props.memorySize)
    THEN CHOOSE n \in props.memorySize : TRUE
    ELSE getOptimalMemorySize(props.stage)

\* new NextjsOptimized(scope, id, props)
NewNextjsOptimized ==
    /\ optimized = <<>>
    /\ \E p \in NextjsOptimizedProps :
          optimized' = <<[props |-> p, lambdaFunction |-> {}]>>
    /\ UNCHANGED <<ctx, pc, stage, order, registry, inputs, deps, grants,
                   pipelineStages, subscriptions, alarms, dashboard, budget,
                   issues, exitStatus, logQueries, first, run, parked,
                   execution, event, jobs>>

\* this.lambdaFunction = new lambda.Function(this, 'Function', {memorySize, ...})
NewFunction ==
    /\ optimized # <<>>
    /\ optimized[1].lambdaFunction = {}
    /\ optimized' =
          <<[optimized[1] EXCEPT
                !.lambdaFunction = {[memorySize |-> memorySize(optimized[1].props)]}]>>
    /\ UNCHANGED <<ctx, pc, stage, order, registry, inputs, deps, grants,
                   pipelineStages, subscriptions, alarms, dashboard, budget,
                   issues, exitStatus, logQueries, first, run, parked,
                   execution, event, jobs>>

NextOptimized == NewNextjsOptimized \/ NewFunction

\* Before the construct is instantiated; no context key is read by it.
InitOptimized ==
    /\ Init
    /\ ctx = [stage |-> Undefined, alertEmail |-> Undefined,
              enableDelivery |-> Undefined, enableMonitoring |-> Undefined]

SpecOptimized == InitOptimized /\ [][NextOptimized]_vars

\* The function of the construct, once created
Functions == IF optimized = <<>> THEN {} ELSE optimized[1].lambdaFunction

\* C27 (as stated): the function's memory size is the memorySize option
\* whenever one is given, and otherwise 1024 for prod, 768 for staging and
\* 512 for any other stage.
C27_OptionWhenGiven ==
    \A f \in Functions :
        IF optimized[1].props.memorySize # {}
        THEN f.memorySize \in optimized[1].props.memorySize
        ELSE f.memorySize = getOptimalMemorySize(optimized[1].props.stage)

\* C27 (amended): the function's memory size is the memorySize option when
\* one is given and is not 0; when the option is absent or 0 it is 1024 for
\* prod, 768 for staging and 512 for any other stage.
C27_OptionWhenTruthy ==
    \A f \in Functions :
        IF optimized[1].props.memorySize # {} /\ optimized[1].props.memorySize # {0}
        THEN f.memorySize \in optimized[1].props.memorySize
        ELSE /\ optimized[1].props.stage = "prod" => f.memorySize = 1024
             /\ optimized[1].props.stage = "staging" => f.memorySize = 768
             /\ optimized[1].props.stage \notin {"prod", "staging"} =>
                   f.memorySize = 512

C27_Witness ==
    \E f \in Functions :
        /\ optimized[1].props.memorySize = {0}
        /\ optimized[1].props.stage = "staging"
        /\ f.memorySize = 768

\* C28: a stage outside validStages makes the script throw before any stack
\* is instantiated, so nothing is built for it; an absent stage is dev.
C28_ValidationFirst ==
    /\ (pc # "readStage" /\ stage \notin ValidStageSet) =>
          /\ pc \in {"validateStage", "thrown"}
          /\ order = <<>>
          /\ registry = {}
    /\ pc = "thrown" => (stage \notin ValidStageSet /\ order = <<>> /\ registry = {})
    /\ (pc # "readStage" /\ ctx.stage = Undefined) => stage = "dev"

C28_Witness ==
    /\ pc = "thrown" /\ ctx.stage \in OtherStages /\ stage = ctx.stage
    /\ order = <<>> /\ registry = {}

\* The alarms the claim lists
ListedAlarms ==
    {"LambdaErrorRate", "LambdaDuration", "LambdaThrottles", "ApiErrorRate",
     "ApiLatency", "DynamoReadThrottles", "DynamoWriteThrottles",
     "CloudFrontErrorRate"}

\* C30: each of the eight alarms of the monitoring stack has exactly one
\* alarm action, the alert topic that the monitoring stack itself published.
C30_AlarmsNotifyOwnTopic ==
    (Built /\ Included(Monitoring)) =>
        /\ {alarms[i].rule.id : i \in 1..Len(alarms)} = ListedAlarms
        /\ Len(alarms) = Cardinality(ListedAlarms)
        /\ \A i \in 1..Len(alarms) :
              /\ Cardinality(alarms[i].alarmActions) = 1
              /\ \A t \in alarms[i].alarmActions :
                    /\ t \in registry
                    /\ t.kind = "alert-channel"
                    /\ t.producingNode = Monitoring
                    /\ t.stage = stage

C30_Witness ==
    /\ Built /\ stage = "prod" /\ Len(alarms) = 8
    /\ \A i \in 1..Len(alarms) : alarms[i].alarmActions = {AlertTopic("prod")}

====
